---- MODULE Spec2Model ----
(***************************************************************************)
(* Request-shielding layer of the livestock telemetry API:                 *)
(*   - CacheKeyGenerator            (apps/api/src/config/redis.ts)         *)
(*   - CacheService.cacheGetOrSet and its circuit breaker                  *)
(*                                  (apps/api/src/services/cache-service.ts)*)
(*   - RateLimiter (sliding window) (apps/api/src/middleware/rate-limiter.ts)*)
(* Three specifications share the module: Spec (cache engine),             *)
(* SpecLimiter (rate limiter) and SpecKeys (key construction).             *)
(***************************************************************************)
EXTENDS Integers, Sequences, FiniteSets, TLC

VARIABLES
  now,          \* Date.now(), milliseconds
  redisClient,  \* redis.ts `redisClient`: TRUE = connected client, FALSE = null
  \* ---- cache engine ----
  store,        \* shared key-value store: key -> Nil or [payload, exp]
  queue,        \* commands of this process's client, sent and not yet answered (FIFO)
  cb,           \* CacheService.circuitBreaker
  stats,        \* CacheService.stats
  slot,         \* in-flight cacheGetOrSet calls (one per request task)
  started,      \* number of calls started so far
  obs,          \* observations of the run (history, not program state)
  inval,        \* the invalidatePattern call under study
  warm,         \* a getAnimals request and the warming task it starts
  \* ---- rate limiter ----
  zset,         \* sorted set of the counter key: set of [score, member]
  zexp,         \* expiry time of the counter key (0 = none)
  pending,      \* per process instance: MULTI/EXEC transactions sent, not yet executed
  checks,       \* log of evaluated rate-limit checks, in the store's execution order
  nonce,        \* source of the random member suffix
  clientOf,     \* per process instance: redis.ts `redisClient` of that process
  \* ---- key construction ----
  keyIn,        \* inputs of the key-construction calls
  keyOut        \* their results

sharedVars == <<now, redisClient>>
auxVars    == <<inval, warm>>
cacheVars  == <<store, queue, cb, stats, slot, started, obs, auxVars>>
rlVars     == <<zset, zexp, pending, checks, nonce, clientOf>>
keyVars    == <<keyIn, keyOut>>
vars       == <<now, redisClient, store, queue, cb, stats, slot, started, obs, inval, warm,
                zset, zexp, pending, checks, nonce, clientOf, keyIn, keyOut>>

(***************************************************************************)
(* JavaScript values used by the key builder.  An optional value is <<>>   *)
(* (undefined) or <<x>>.                                                   *)
(***************************************************************************)
undefined == <<>>
Some(x) == <<x>>

\* Boolean(x) for an optional string: undefined and "" are falsy
TruthyStr(m) == m # undefined /\ m[1] # ""
\* Boolean(x) for an optional number: undefined and 0 are falsy
TruthyNum(m) == m # undefined /\ m[1] # 0
\* destructuring default `{ x = d }`: applies to undefined only
Default(m, d) == IF m = undefined THEN d ELSE m[1]

RECURSIVE Join(_, _)
\* Array.prototype.join(sep) on an array of strings
Join(parts, sep) ==
  IF Len(parts) = 0 THEN ""
  ELSE IF Len(parts) = 1 THEN parts[1]
  ELSE parts[1] \o sep \o Join(Tail(parts), sep)

RECURSIVE FilterBoolean(_)
\* parts.filter(Boolean), unwrapping the kept strings
FilterBoolean(parts) ==
  IF Len(parts) = 0 THEN <<>>
  ELSE IF TruthyStr(Head(parts)) THEN <<Head(parts)[1]>> \o FilterBoolean(Tail(parts))
  ELSE FilterBoolean(Tail(parts))

PREFIX == "livestock"
SEP == ":"

\* CacheKeyGenerator.k(...parts)
k(parts) == Join(<<PREFIX>> \o FilterBoolean(parts), SEP)

\* CacheKeyGenerator.sensorReading(animalId, latest)
sensorReading(animalId, latest) ==
  k(<<Some("sensor"), Some(animalId), IF latest THEN Some("latest") ELSE undefined>>)

\* CacheKeyGenerator.sensorHistory(animalId, hours, page, limit)
sensorHistory(animalId, hours, page, limit) ==
  k(<<Some("sensor"), Some(animalId), Some("history"), Some(ToString(hours) \o "h"),
      Some("p" \o ToString(page)), Some("l" \o ToString(limit))>>)

\* CacheKeyGenerator.healthPrediction(animalId, latest)
healthPrediction(animalId, latest) ==
  k(<<Some("health"), Some(animalId), IF latest THEN Some("latest") ELSE undefined>>)

\* CacheKeyGenerator.aggregatedSensorData(animalId, resolution, hours?)
aggregatedSensorData(animalId, resolution, hours) ==
  k(<<Some("agg"), Some(animalId), Some(resolution),
      IF TruthyNum(hours) THEN Some(ToString(hours[1]) \o "h") ELSE undefined>>)

\* CacheKeyGenerator.rateLimitKey(identifier, window)
rateLimitKey(identifier, window) == k(<<Some("ratelimit"), Some(window), Some(identifier)>>)

Max(a, b) == IF a >= b THEN a ELSE b
\* Math.ceil(a / b) for a >= 0 and b > 0
Ceil(a, b) == (a + b - 1) \div b

\* Number(results[2]) || 0: a reply that is no number counts as 0
countOf(reply) == IF TruthyNum(reply) THEN reply[1] ELSE 0

\* A plausible slip: remaining is not clamped at 0
checkResultFor_noClamp(config, reply) ==
  LET count == countOf(reply)
      exceeded == count > config.maxRequests
      resetSeconds == Ceil(config.windowMs, 1000)
  IN [exceeded |-> exceeded, count |-> count, remaining |-> config.maxRequests - count,
      resetSeconds |-> resetSeconds, retryAfter |-> IF exceeded THEN resetSeconds ELSE 0]

\* redisRateLimit, lines 394-400, for a limiter with configuration `config`
\* and the store's reply to ZCARD
checkResultFor(config, reply) ==
  LET count == countOf(reply)
      exceeded == count > config.maxRequests
      resetSeconds == Ceil(config.windowMs, 1000)
  IN [exceeded |-> exceeded, count |-> count,
      remaining |-> Max(0, config.maxRequests - count),
      resetSeconds |-> resetSeconds, retryAfter |-> IF exceeded THEN resetSeconds ELSE 0]

(***************************************************************************)
(* Array.prototype.sort() without a comparator: ascending by UTF-16 code   *)
(* units.  CodeUnits gives the code units of the animal ids of the model.  *)
(***************************************************************************)
AnimalIds == {"C001", "C002", "C010"}
CodeUnits ==
  ("C001" :> <<67, 48, 48, 49>>) @@ ("C002" :> <<67, 48, 48, 50>>) @@
  ("C010" :> <<67, 48, 49, 48>>)

RECURSIVE LexLess(_, _)
LexLess(a, b) ==
  IF Len(a) = 0 THEN Len(b) > 0
  ELSE IF Len(b) = 0 THEN FALSE
  ELSE IF Head(a) # Head(b) THEN Head(a) < Head(b)
  ELSE LexLess(Tail(a), Tail(b))

StrLess(s, t) == LexLess(CodeUnits[s], CodeUnits[t])

RECURSIVE Insert(_, _)
Insert(x, sorted) ==
  IF Len(sorted) = 0 THEN <<x>>
  ELSE IF StrLess(x, Head(sorted)) THEN <<x>> \o sorted
  ELSE <<Head(sorted)>> \o Insert(x, Tail(sorted))

RECURSIVE SortStrings(_)
SortStrings(a) == IF Len(a) = 0 THEN <<>> ELSE Insert(a[Len(a)], SortStrings(SubSeq(a, 1, Len(a) - 1)))

\* A plausible slip: the ids are joined in the caller's order
batchSensorReadings_unsorted(animalIds, hours, limitPerAnimal) ==
  [key |-> k(<<Some("sensor"), Some("batch"), Some(Join(animalIds, ",")),
               Some(ToString(hours) \o "h"), Some("l" \o ToString(limitPerAnimal))>>),
   animalIds |-> animalIds]

\* CacheKeyGenerator.batchSensorReadings(animalIds, hours, limitPerAnimal):
\* the key, and the caller's array as the call leaves it ([...animalIds] is a copy)
batchSensorReadings(animalIds, hours, limitPerAnimal) ==
  LET sortedIds == Join(SortStrings(animalIds), ",")
  IN [key |-> k(<<Some("sensor"), Some("batch"), Some(sortedIds),
                  Some(ToString(hours) \o "h"), Some("l" \o ToString(limitPerAnimal))>>),
      animalIds |-> animalIds]

(***************************************************************************)
(* Queries as the cache service receives them.  `options` fields are       *)
(* optional; times are Date objects (always truthy), given by their epoch. *)
(***************************************************************************)
Hours == {24, 48}
Times == {1000}
Limits == {50}
Offsets == {10}
Resolutions == {"1hour", "1day"}
MaxBatch == 3

Opt(S) == {undefined} \cup {Some(x) : x \in S}

SensorQueries ==
  [method : {"getSensorReadings"}, animalId : {"C001", "C002"}, resolution : {""},
   hours : Opt(Hours), startTime : Opt(Times), endTime : Opt(Times),
   limit : Opt(Limits), offset : Opt(Offsets)]
AggregateQueries ==
  [method : {"getAggregatedSensorData"}, animalId : {"C001", "C002"},
   resolution : Resolutions,
   hours : Opt(Hours), startTime : Opt(Times), endTime : {undefined},
   limit : Opt(Limits), offset : {undefined}]
HealthQueries ==
  [method : {"getHealthLabels"}, animalId : {"C001", "C002"}, resolution : {""},
   hours : {undefined}, startTime : Opt(Times), endTime : Opt(Times),
   limit : Opt(Limits), offset : {undefined}]
Queries == SensorQueries \cup AggregateQueries \cup HealthQueries

\* The key CacheService.getSensorReadings computes for its arguments
getSensorReadingsKey(q) ==
  LET hours  == Default(q.hours, 24)
      limit  == Default(q.limit, 100)
      offset == Default(q.offset, 0)
      page   == (offset \div limit) + 1
  IN sensorHistory(q.animalId, hours, page, limit)

\* The key CacheService.getAggregatedSensorData computes for its arguments
getAggregatedSensorDataKey(q) == aggregatedSensorData(q.animalId, q.resolution, q.hours)

\* The key CacheService.getHealthLabels computes for its arguments
getHealthLabelsKey(q) ==
  healthPrediction(q.animalId, FALSE) \o "_history_" \o ToString(Default(q.limit, 100))

CacheKeyOf(q) ==
  CASE q.method = "getSensorReadings"       -> getSensorReadingsKey(q)
    [] q.method = "getAggregatedSensorData" -> getAggregatedSensorDataKey(q)
    [] q.method = "getHealthLabels"         -> getHealthLabelsKey(q)

(***************************************************************************)
(* What the fetcher of each method asks of the time-series store: the      *)
(* table or view, the time filter, the row limit and the offset.           *)
(***************************************************************************)
NoFilter == <<"none", 0, 0>>
SinceReference(h) == <<"reference-minus-hours", h, 0>>
Range(s, e) == IF e = undefined THEN <<"from", s[1], 0>> ELSE <<"between", s[1], e[1]>>

\* DatabaseService.getSensorReadings
dbGetSensorReadings(q) ==
  [source |-> "sensor_readings", animalId |-> q.animalId,
   filter |-> IF TruthyNum(q.hours) /\ q.startTime = undefined THEN SinceReference(q.hours[1])
              ELSE IF q.startTime # undefined THEN Range(q.startTime, q.endTime)
              ELSE NoFilter,
   limit |-> Default(q.limit, 100), offset |-> Default(q.offset, 0)]

viewMap ==
  ("5min" :> "sensor_readings_5min") @@ ("15min" :> "sensor_readings_15min") @@
  ("1hour" :> "sensor_readings_1hour") @@ ("1day" :> "sensor_readings_1day")

\* DatabaseService.getAggregatedSensorData (for a supported resolution)
dbGetAggregatedSensorData(q) ==
  [source |-> viewMap[q.resolution], animalId |-> q.animalId,
   filter |-> IF TruthyNum(q.hours) /\ q.startTime = undefined /\ q.hours[1] <= 8760
                THEN SinceReference(q.hours[1])
              ELSE IF q.startTime # undefined THEN Range(q.startTime, q.endTime)
              ELSE NoFilter,
   limit |-> Default(q.limit, 100), offset |-> 0]

\* DatabaseService.getHealthLabels
dbGetHealthLabels(q) ==
  [source |-> "health_labels", animalId |-> q.animalId,
   filter |-> IF q.startTime # undefined THEN Range(q.startTime, q.endTime) ELSE NoFilter,
   limit |-> Default(q.limit, 100), offset |-> 0]

DbQueryOf(q) ==
  CASE q.method = "getSensorReadings"       -> dbGetSensorReadings(q)
    [] q.method = "getAggregatedSensorData" -> dbGetAggregatedSensorData(q)
    [] q.method = "getHealthLabels"         -> dbGetHealthLabels(q)

(***************************************************************************)
(* Rate-limit counter keys of the requests the application serves.  A URL  *)
(* is its sequence of path segments.                                       *)
(***************************************************************************)
\* RateLimitTiers.FREE and CommonRateLimiters, by the limiter's place in the
\* application ("global" is the limiter globalRateLimit() creates)
LimiterConfig ==
  ("global"    :> [windowMs |-> 60000, maxRequests |-> 100]) @@
  ("api"       :> [windowMs |-> 60000, maxRequests |-> 100]) @@
  ("sensors"   :> [windowMs |-> 60000, maxRequests |-> 200]) @@
  ("analytics" :> [windowMs |-> 60000, maxRequests |-> 50]) @@
  ("auth"      :> [windowMs |-> 900000, maxRequests |-> 5]) @@
  ("health"    :> [windowMs |-> 60000, maxRequests |-> 1000])

Urls ==
  {<<"health">>,
   <<"api", "v1", "sensors", "C001", "latest">>, <<"api", "v1", "sensors", "C002", "latest">>,
   <<"api", "v1", "sensors", "status">>,
   <<"api", "v1", "animals", "C001">>, <<"api", "v1", "animals", "stats">>,
   <<"api", "v1", "analytics", "performance", "benchmarks">>}
Principals == {"10.0.0.7", "10.0.0.8"}

\* limiter configurations and ZCARD replies for the decision: the configured
\* limiters and small ones whose window is no multiple of a second
SmallWindows == {1, 999, 1000, 1001, 1500}
SmallLimits == {1, 2}
DecisionConfigs ==
  {LimiterConfig[l] : l \in DOMAIN LimiterConfig} \cup
  [windowMs : SmallWindows, maxRequests : SmallLimits]
Replies(config) ==
  {undefined} \cup {Some(c) : c \in (0..3) \cup ((config.maxRequests - 1)..(config.maxRequests + 2))}

IsPrefix(p, u) == Len(p) <= Len(u) /\ SubSeq(u, 1, Len(p)) = p
\* req.path below a mount point: the URL with the mount path stripped
pathBelow(mount, u) == "/" \o Join(SubSeq(u, Len(mount) + 1, Len(u)), "/")

\* the route that serves a URL: its router and its path template
routeOf(u) ==
  IF u = <<"health">> THEN <<"app", "/health">>
  ELSE IF IsPrefix(<<"api", "v1", "sensors">>, u) THEN
    <<"sensors", IF Len(u) = 5 THEN "/:animalId/" \o u[5] ELSE "/" \o u[4]>>
  ELSE IF IsPrefix(<<"api", "v1", "animals">>, u) THEN
    <<"animals", IF u[4] = "stats" THEN "/stats" ELSE "/:animalId">>
  ELSE <<"analytics", pathBelow(<<"api", "v1", "analytics">>, u)>>

\* createApp: the limiter middlewares a request passes, in order, each with
\* the req.route?.path and req.path it sees
limiterStack(u) ==
  <<[limiter |-> "global", route |-> undefined, path |-> pathBelow(<<>>, u)]>> \o
  (IF u = <<"health">>
     THEN <<[limiter |-> "health", route |-> Some("/health"), path |-> "/health"]>>
   ELSE IF IsPrefix(<<"api", "v1", "animals">>, u)
     THEN <<[limiter |-> "api", route |-> undefined,
             path |-> pathBelow(<<"api", "v1", "animals">>, u)]>>
   ELSE IF IsPrefix(<<"api", "v1", "sensors">>, u)
     THEN <<[limiter |-> "sensors", route |-> undefined,
             path |-> pathBelow(<<"api", "v1", "sensors">>, u)]>>
   ELSE <<[limiter |-> "analytics", route |-> undefined,
           path |-> pathBelow(<<"api", "v1", "analytics">>, u)]>>)

\* middleware(), line 326: req.route?.path || req.path
endpointOf(req) == IF TruthyStr(req.route) THEN req.route[1] ELSE req.path

\* middleware() and redisRateLimit, lines 325-327 and 379-380: the counter key
\* a limiter uses for a request
counterKey(req, principal) ==
  rateLimitKey(endpointOf(req) \o ":" \o principal,
               ToString(LimiterConfig[req.limiter].windowMs) \o "ms")

\* the checks one request goes through: limiter, endpoint, principal, key
checksOf(u, principal) ==
  [i \in DOMAIN limiterStack(u) |->
     [limiter |-> limiterStack(u)[i].limiter, endpoint |-> endpointOf(limiterStack(u)[i]),
      principal |-> principal, key |-> counterKey(limiterStack(u)[i], principal)]]

\* new RateLimiter(config): the defaults, overridden by what config carries
newRateLimiter(config) ==
  [windowMs |-> config.windowMs, maxRequests |-> config.maxRequests,
   standardHeaders |-> TRUE, legacyHeaders |-> TRUE]

\* A plausible slip: Retry-After is set on every response
setHeaders_always(config, r) ==
  [limit |-> IF config.standardHeaders THEN Some(config.maxRequests) ELSE undefined,
   remaining |-> IF config.standardHeaders THEN Some(Max(0, r.remaining)) ELSE undefined,
   reset |-> IF config.standardHeaders THEN Some(Max(0, r.resetSeconds)) ELSE undefined,
   retryAfter |-> Some(Max(1, r.retryAfter))]

\* RateLimiter.setHeaders: the headers the response carries
setHeaders(config, r) ==
  [limit |-> IF config.standardHeaders THEN Some(config.maxRequests) ELSE undefined,
   remaining |-> IF config.standardHeaders THEN Some(Max(0, r.remaining)) ELSE undefined,
   reset |-> IF config.standardHeaders THEN Some(Max(0, r.resetSeconds)) ELSE undefined,
   retryAfter |-> IF r.retryAfter > 0 THEN Some(Max(1, r.retryAfter)) ELSE undefined]

NoQuery == [method |-> "", animalId |-> "", resolution |-> "", hours |-> undefined,
            startTime |-> undefined, endTime |-> undefined, limit |-> undefined,
            offset |-> undefined]

\* requests for GET /api/v1/analytics/sensor/:animalId/timeseries: the query
\* parameters resolution and hours, when present
TimeseriesRequests ==
  [animalId : {"C001"}, resolution : Opt({"5min", "1hour", "1day", "2hour"}),
   hours : Opt({24, 9000}), principal : Principals]

\* the request from the first middleware to the handler's call of the cache
\* service: the limiter checks made, the status, and for a handled request
\* the cache key and the query its fetcher runs on a miss
timeseries(rq) ==
  LET u == <<"api", "v1", "analytics", "sensor", rq.animalId, "timeseries">>
      hoursParam == IF TruthyNum(rq.hours) THEN rq.hours ELSE undefined
      hours == IF TruthyNum(hoursParam) THEN Some(IF hoursParam[1] < 17520 THEN hoursParam[1] ELSE 17520)
               ELSE undefined
      valid == rq.resolution # undefined /\ rq.resolution[1] \in {"5min", "15min", "1hour", "1day"}
      minutes == IF rq.resolution = Some("5min") THEN 5
                 ELSE IF rq.resolution = Some("15min") THEN 15
                 ELSE IF rq.resolution = Some("1hour") THEN 60 ELSE 1440
      limit == IF TruthyNum(hoursParam)
                 THEN (IF (hoursParam[1] * 60) \div minutes + 100 < 10000
                         THEN (hoursParam[1] * 60) \div minutes + 100 ELSE 10000)
               ELSE 1000
      q == [NoQuery EXCEPT !.method = "getAggregatedSensorData", !.animalId = rq.animalId,
                           !.resolution = IF valid THEN rq.resolution[1] ELSE "",
                           !.hours = IF TruthyNum(hours) /\ hours[1] <= 17520 THEN hours
                                     ELSE undefined,
                           !.limit = Some(limit)]
  IN [checks |-> checksOf(u, rq.principal),
      status |-> IF valid THEN "handled" ELSE "400",
      key |-> IF valid THEN Some(getAggregatedSensorDataKey(q)) ELSE undefined,
      query |-> IF valid THEN Some(dbGetAggregatedSensorData(q)) ELSE undefined]

(***************************************************************************)
(* Key-construction scenarios: two queries whose keys are computed, or a   *)
(* batch of ids and a permutation of it, or two requests that pass the     *)
(* application's rate limiters.                                            *)
(***************************************************************************)
IdLists == UNION {[1..n -> AnimalIds] : n \in 0..MaxBatch}
Permutation(n) == {f \in [1..n -> 1..n] : \A i, j \in 1..n : f[i] = f[j] => i = j}
Shuffles(ids) == {[i \in 1..Len(ids) |-> ids[f[i]]] : f \in Permutation(Len(ids))}

NoKeys == [ka |-> undefined, kb |-> undefined, ba |-> undefined, bb |-> undefined,
           idsAfter |-> undefined, permAfter |-> undefined,
           la |-> undefined, lb |-> undefined, decision |-> undefined,
           headers |-> undefined, ts |-> undefined, held |-> undefined]

\* the cache service derives the key of the first query
KeyOfFirst ==
  /\ keyIn.kind = "query" /\ keyOut.ka = undefined
  /\ keyOut' = [keyOut EXCEPT !.ka = Some(CacheKeyOf(keyIn.qa))]
  /\ UNCHANGED <<keyIn, sharedVars, cacheVars, rlVars>>

\* the cache service derives the key of the second query
KeyOfSecond ==
  /\ keyIn.kind = "query" /\ keyOut.kb = undefined
  /\ keyOut' = [keyOut EXCEPT !.kb = Some(CacheKeyOf(keyIn.qb))]
  /\ UNCHANGED <<keyIn, sharedVars, cacheVars, rlVars>>

\* CacheService.getBatchSensorReadings derives the key of the batch; idsAfter
\* is the caller's array as the key generator leaves it
BatchKeyOfList ==
  /\ keyIn.kind = "batch" /\ keyOut.ba = undefined
  /\ LET r == batchSensorReadings(keyIn.ids, keyIn.hours, keyIn.limitPerAnimal)
     IN keyOut' = [keyOut EXCEPT !.ba = Some(r.key), !.idsAfter = Some(r.animalIds)]
  /\ UNCHANGED <<keyIn, sharedVars, cacheVars, rlVars>>

\* the same for the shuffled list
BatchKeyOfShuffle ==
  /\ keyIn.kind = "batch" /\ keyOut.bb = undefined
  /\ LET r == batchSensorReadings(keyIn.perm, keyIn.hours, keyIn.limitPerAnimal)
     IN keyOut' = [keyOut EXCEPT !.bb = Some(r.key), !.permAfter = Some(r.animalIds)]
  /\ UNCHANGED <<keyIn, sharedVars, cacheVars, rlVars>>

\* the first request passes the limiters mounted on its way
LimitFirst ==
  /\ keyIn.kind = "requests" /\ keyOut.la = undefined
  /\ keyOut' = [keyOut EXCEPT !.la = Some(checksOf(keyIn.ua, keyIn.pa))]
  /\ UNCHANGED <<keyIn, sharedVars, cacheVars, rlVars>>

\* the second request passes the limiters mounted on its way
LimitSecond ==
  /\ keyIn.kind = "requests" /\ keyOut.lb = undefined
  /\ keyOut' = [keyOut EXCEPT !.lb = Some(checksOf(keyIn.ub, keyIn.pb))]
  /\ UNCHANGED <<keyIn, sharedVars, cacheVars, rlVars>>

\* a limiter turns the store's reply into its decision (redisRateLimit, 394-400)
\* and the decision into response headers (middleware, line 331)
Decide ==
  /\ keyIn.kind = "decision" /\ keyOut.decision = undefined
  /\ LET r == checkResultFor(keyIn.config, keyIn.reply)
     IN keyOut' = [keyOut EXCEPT !.decision = Some(r),
                                 !.headers = Some(setHeaders(newRateLimiter(keyIn.config), r))]
  /\ UNCHANGED <<keyIn, sharedVars, cacheVars, rlVars>>

\* GET /api/v1/analytics/sensor/:animalId/timeseries is served
Timeseries ==
  /\ keyIn.kind = "timeseries" /\ keyOut.ts = undefined
  /\ keyOut' = [keyOut EXCEPT !.ts = Some(timeseries(keyIn.rq))]
  /\ UNCHANGED <<keyIn, sharedVars, cacheVars, rlVars>>

(***************************************************************************)
(*                         CACHE-ASIDE ENGINE                              *)
(***************************************************************************)
maxFailures == 5
resetTimeout == 30000
SENSOR_LATEST == 60
SENSOR_HISTORY == 300

Slots == {1, 2}      \* request tasks that can be inside cacheGetOrSet at once
Solo == {1}          \* the task used by the runs with one call at a time (its
                     \* fire-and-forget writes stay in flight after it returns)
MaxCalls == 6        \* calls started in one run
TickMs == 30000      \* granularity of the clock
MaxTicks == 2

Values == {"A", "B"} \* JSON-representable results a fetcher can produce

\* -------- serialisation ------------------------------------------------
\* A payload is the text held by the store: JSON text, base64 of JSON text,
\* or text that is neither.
NoPayload == [enc |-> "none", v |-> ""]
\* JSON.stringify(data)
JSONstringify(v) == [enc |-> "json", v |-> v]
\* CacheService.compress: Buffer.from(data).toString('base64')
compress(p) == [p EXCEPT !.enc = IF p.enc = "json" THEN "b64" ELSE "corrupt"]
\* CacheService.decompress: Buffer.from(data, 'base64').toString(); text that
\* is not base64 decodes to bytes that are no JSON text
decompress(p) == [p EXCEPT !.enc = IF p.enc = "b64" THEN "json" ELSE "corrupt"]
\* JSON.parse(data): the value, or a SyntaxError
JSONparse(p) == IF p.enc = "json" THEN [ok |-> TRUE, v |-> p.v] ELSE [ok |-> FALSE, v |-> ""]

\* -------- circuit breaker -----------------------------------------------
\* A plausible slip: the breaker closes when the timeout is reached, not passed
isCircuitOpen_atTimeout(b, t) ==
  IF ~b.isOpen THEN [open |-> FALSE, cb |-> b]
  ELSE IF t - b.lastFailure >= resetTimeout
    THEN [open |-> FALSE, cb |-> [b EXCEPT !.isOpen = FALSE, !.failures = 0]]
  ELSE [open |-> TRUE, cb |-> b]

\* CacheService.isCircuitOpen: the answer and the breaker as the check leaves it
isCircuitOpen(b, t) ==
  IF ~b.isOpen THEN [open |-> FALSE, cb |-> b]
  ELSE IF t - b.lastFailure > resetTimeout
    THEN [open |-> FALSE, cb |-> [b EXCEPT !.isOpen = FALSE, !.failures = 0]]
  ELSE [open |-> TRUE, cb |-> b]

\* A plausible slip: the threshold is tested with > instead of >=
recordFailure_offByOne(b, t) ==
  [failures |-> b.failures + 1, lastFailure |-> t,
   isOpen |-> IF b.failures + 1 > maxFailures THEN TRUE ELSE b.isOpen]

\* CacheService.recordFailure
recordFailure(b, t) ==
  [failures |-> b.failures + 1, lastFailure |-> t,
   isOpen |-> IF b.failures + 1 >= maxFailures THEN TRUE ELSE b.isOpen]

\* CacheService.resetCircuitBreaker
resetCircuitBreaker(b) == IF b.failures > 0 THEN [b EXCEPT !.failures = 0] ELSE b

\* -------- call sites ------------------------------------------------------
\* CacheService.getLatestSensorReading(animalId): key, ttl, compress
getLatestSensorReading(animalId) ==
  [key |-> sensorReading(animalId, TRUE), ttl |-> SENSOR_LATEST, compress |-> FALSE]
\* CacheService.getSensorReadings(animalId, {}): key, ttl, compress
getSensorReadings(animalId) ==
  [key |-> getSensorReadingsKey([NoQuery EXCEPT !.animalId = animalId]),
   ttl |-> SENSOR_HISTORY, compress |-> TRUE]

CallSites == {getLatestSensorReading("C001"), getSensorReadings("C001")}
Keys == {c.key : c \in CallSites}
NoSite == [key |-> "", ttl |-> 0, compress |-> FALSE]

NoEntry == [enc |-> "none", v |-> "", exp |-> 0]
NoResult == [ok |-> FALSE, v |-> "none"]
Threw == [ok |-> FALSE, v |-> "error"]
Returned(v) == [ok |-> TRUE, v |-> v]

IdleSlot ==
  [pc |-> "idle", site |-> NoSite, result |-> NoResult, lastFetch |-> NoResult,
   fetches |-> 0, storeOps |-> 0, clean0 |-> FALSE, follows |-> undefined, hits0 |-> 0]

Busy(s) == slot[s].pc \notin {"idle", "done"}

InitCache ==
  /\ store = [key \in Keys |-> NoEntry]
  /\ queue = <<>>
  /\ cb = [failures |-> 0, lastFailure |-> 0, isOpen |-> FALSE]
  /\ stats = [hits |-> 0, misses |-> 0, errors |-> 0, totalRequests |-> 0]
  /\ slot = [s \in Slots |-> IdleSlot]
  /\ started = 0
  /\ obs = [last |-> [key |-> "", v |-> "", valid |-> FALSE], streak |-> 0, key |-> "",
            wasReset |-> FALSE]
  /\ inval = [pc |-> "idle"]
  /\ warm = [pc |-> "idle"]

\* -------- pieces of cacheGetOrSet ----------------------------------------
\* A plausible slip: the catch block rethrows instead of falling back
catchBlock_rethrow(sl) == [sl EXCEPT !.pc = "done", !.result = Threw]

\* cacheGetOrSet, catch block (lines 79-86): the task goes on to `await fetcher()`
catchBlock(sl) == [sl EXCEPT !.pc = "fallback", !.fetches = @ + 1]

\* A plausible slip: the cached text is parsed without reversing the compression
readCached_raw(site, payload) == JSONparse(payload)

\* cacheGetOrSet, hit (lines 58-59): decompress if asked, then JSON.parse
readCached(site, payload) ==
  JSONparse(IF site.compress THEN decompress(payload) ELSE payload)

\* cacheGetOrSet, miss (lines 67-68): what is handed to setEx
toStore(site, data) ==
  IF site.compress THEN compress(JSONstringify(data)) ELSE JSONstringify(data)

GetCmd(s, key) ==
  [op |-> "get", slot |-> s, key |-> key, payload |-> NoPayload, ttl |-> 0,
   clean0 |-> FALSE, dead |-> FALSE]
SetExCmd(site, payload, clean0, dead) ==
  [op |-> "setEx", slot |-> 0, key |-> site.key, payload |-> payload, ttl |-> site.ttl,
   clean0 |-> clean0, dead |-> dead]

\* -------- bookkeeping of the observations ---------------------------------
\* the store misbehaved or changed behind the engine: nothing "immediately
\* follows" a clean miss any more
Disturbed(sl) == [x \in Slots |-> [sl[x] EXCEPT !.follows = undefined]]
NoLast == [key |-> "", v |-> "", valid |-> FALSE]

\* cacheGetOrSet from entry to its first await (lines 44-54)
CallStart(s, site) ==
  /\ ~Busy(s) /\ started < MaxCalls
  /\ obs.key \in {"", site.key}   \* one run exercises one key
  /\ started' = started + 1
  /\ LET chk   == isCircuitOpen(cb, now)
         alone == \A x \in Slots \ {s} : ~Busy(x)
         fresh == [IdleSlot EXCEPT
                     !.site = site, !.hits0 = stats.hits,
                     !.clean0 = (chk.cb.failures = 0 /\ ~chk.cb.isOpen),
                     !.follows = IF obs.last.valid /\ obs.last.key = site.key /\ alone
                                   THEN Some(obs.last.v) ELSE undefined]
         others == [x \in Slots |-> [slot[x] EXCEPT !.follows = undefined]]
     IN IF chk.open
          THEN \* breaker open: `return await fetcher()`
               /\ stats' = [stats EXCEPT !.totalRequests = @ + 1]
               /\ cb' = chk.cb
               /\ slot' = [others EXCEPT ![s] = [fresh EXCEPT !.pc = "bypass", !.fetches = 1]]
               /\ obs' = [obs EXCEPT !.last = NoLast, !.streak = 0, !.key = site.key]
               /\ UNCHANGED queue
        ELSE IF ~redisClient
          THEN \* getRedisClient() throws: catch block
               /\ stats' = [stats EXCEPT !.totalRequests = @ + 1, !.errors = @ + 1]
               /\ cb' = recordFailure(chk.cb, now)
               /\ slot' = [others EXCEPT ![s] = catchBlock(fresh)]
               /\ obs' = [last |-> NoLast, streak |-> 0, key |-> site.key,
                          wasReset |-> obs.wasReset \/ cb.isOpen]
               /\ UNCHANGED queue
        ELSE \* `await redis.get(key)`
               /\ stats' = [stats EXCEPT !.totalRequests = @ + 1]
               /\ cb' = chk.cb
               /\ slot' = [others EXCEPT ![s] = [fresh EXCEPT !.pc = "get", !.storeOps = 1]]
               /\ queue' = Append(queue, GetCmd(s, site.key))
               /\ obs' = [last |-> NoLast, key |-> site.key,
                          streak |-> IF cb.isOpen THEN 0 ELSE obs.streak,
                          wasReset |-> obs.wasReset \/ cb.isOpen]
  /\ UNCHANGED <<store, sharedVars, rlVars, keyVars, auxVars>>

\* the store answers the GET: cacheGetOrSet from line 54 to its next await or return
ReplyGet(s) ==
  /\ queue # <<>> /\ Head(queue).op = "get" /\ Head(queue).slot = s
  /\ slot[s].pc = "get"
  /\ queue' = Tail(queue)
  /\ LET sl == slot[s]
         entry == store[sl.site.key]
     IN \/ \* the command is rejected (connection error, timeout): catch block
           /\ stats' = [stats EXCEPT !.errors = @ + 1]
           /\ cb' = recordFailure(cb, now)
           /\ slot' = [Disturbed(slot) EXCEPT ![s] = catchBlock([sl EXCEPT !.follows = undefined])]
           /\ obs' = [obs EXCEPT !.last = NoLast, !.streak = 0]
        \/ \* a value is cached
           /\ entry.enc # "none"
           /\ LET r == readCached(sl.site, [enc |-> entry.enc, v |-> entry.v])
              IN IF r.ok
                   THEN /\ stats' = [stats EXCEPT !.hits = @ + 1]
                        /\ cb' = cb
                        /\ slot' = [slot EXCEPT ![s] = [sl EXCEPT !.pc = "done",
                                                                  !.result = Returned(r.v)]]
                   ELSE \* JSON.parse throws: catch block
                        /\ stats' = [stats EXCEPT !.hits = @ + 1, !.errors = @ + 1]
                        /\ cb' = recordFailure(cb, now)
                        /\ slot' = [slot EXCEPT ![s] = catchBlock(sl)]
           /\ obs' = [obs EXCEPT !.streak = 0]
        \/ \* nothing cached: `await fetcher()`
           /\ entry.enc = "none"
           /\ stats' = [stats EXCEPT !.misses = @ + 1]
           /\ cb' = cb
           /\ slot' = [slot EXCEPT ![s] = [sl EXCEPT !.pc = "fetch", !.fetches = @ + 1]]
           /\ obs' = obs
  /\ UNCHANGED <<store, started, sharedVars, rlVars, keyVars, auxVars>>

\* the fetcher of a miss settles: cacheGetOrSet lines 64-77, or the catch block
FetchReturn(s) ==
  /\ slot[s].pc = "fetch"
  /\ LET sl == slot[s]
     IN \/ \E v \in Values :
             /\ queue' = Append(queue, SetExCmd(sl.site, toStore(sl.site, v), sl.clean0,
                                                ~redisClient))
             /\ cb' = resetCircuitBreaker(cb)
             /\ slot' = [slot EXCEPT ![s] = [sl EXCEPT !.pc = "done", !.result = Returned(v),
                                                       !.lastFetch = Returned(v),
                                                       !.storeOps = @ + 1]]
             /\ obs' = [obs EXCEPT !.last = [key |-> sl.site.key, v |-> v,
                                             valid |-> redisClient /\ ~cb.isOpen /\
                                                       \A x \in Slots \ {s} : ~Busy(x)]]
             /\ stats' = stats
        \/ \* the fetcher throws inside the try: catch block
           /\ stats' = [stats EXCEPT !.errors = @ + 1]
           /\ cb' = recordFailure(cb, now)
           /\ slot' = [slot EXCEPT ![s] = catchBlock([sl EXCEPT !.lastFetch = Threw])]
           /\ obs' = [obs EXCEPT !.streak = 0]
           /\ queue' = queue
  /\ UNCHANGED <<store, started, sharedVars, rlVars, keyVars, auxVars>>

\* the fetcher called with the breaker open settles (line 50, or the catch block)
BypassReturn(s) ==
  /\ slot[s].pc = "bypass"
  /\ LET sl == slot[s]
     IN \/ \E v \in Values :
             /\ slot' = [slot EXCEPT ![s] = [sl EXCEPT !.pc = "done", !.result = Returned(v),
                                                       !.lastFetch = Returned(v)]]
             /\ UNCHANGED <<stats, cb>>
        \/ /\ stats' = [stats EXCEPT !.errors = @ + 1]
           /\ cb' = recordFailure(cb, now)
           /\ slot' = [slot EXCEPT ![s] = catchBlock([sl EXCEPT !.lastFetch = Threw])]
  /\ UNCHANGED <<store, queue, started, obs, sharedVars, rlVars, keyVars, auxVars>>

\* the fetcher called from the catch block settles (line 85)
FallbackReturn(s) ==
  /\ slot[s].pc = "fallback"
  /\ LET sl == slot[s]
     IN \/ \E v \in Values :
             slot' = [slot EXCEPT ![s] = [sl EXCEPT !.pc = "done", !.result = Returned(v),
                                                    !.lastFetch = Returned(v)]]
        \/ slot' = [slot EXCEPT ![s] = [sl EXCEPT !.pc = "done", !.result = Threw,
                                                  !.lastFetch = Threw]]
  /\ UNCHANGED <<store, queue, cb, stats, started, obs, sharedVars, rlVars, keyVars, auxVars>>

\* the store answers a SETEX sent fire-and-forget (lines 71-74)
ReplySetEx ==
  /\ queue # <<>> /\ Head(queue).op = "setEx"
  /\ queue' = Tail(queue)
  /\ LET c == Head(queue)
     IN \/ /\ ~c.dead
           /\ store' = [store EXCEPT ![c.key] =
                          [enc |-> c.payload.enc, v |-> c.payload.v, exp |-> now + c.ttl * 1000]]
           /\ obs' = [obs EXCEPT !.streak = 0]
           /\ UNCHANGED <<cb, slot>>
        \/ \* rejected: the .catch handler records a failure
           /\ cb' = recordFailure(cb, now)
           /\ slot' = Disturbed(slot)
           /\ obs' = [obs EXCEPT !.last = NoLast,
                                  !.streak = IF @ = 0 THEN (IF c.clean0 THEN 1 ELSE 0)
                                             ELSE @ + 1]
           /\ store' = store
  /\ UNCHANGED <<stats, started, sharedVars, rlVars, keyVars, auxVars>>

\* time passes; the store drops the entries whose TTL has run out
Tick ==
  /\ now + TickMs <= MaxTicks * TickMs
  /\ now' = now + TickMs
  /\ store' = [key \in Keys |-> IF store[key].enc # "none" /\ store[key].exp <= now'
                                 THEN NoEntry ELSE store[key]]
  /\ LET expired == \E key \in Keys : store'[key] # store[key]
     IN /\ slot' = IF expired THEN Disturbed(slot) ELSE slot
        /\ obs' = IF expired THEN [obs EXCEPT !.last = NoLast] ELSE obs
  /\ UNCHANGED <<redisClient, queue, cb, stats, started, rlVars, keyVars, auxVars>>

\* closeRedis(): the module's client becomes null
CloseRedis ==
  /\ redisClient
  /\ redisClient' = FALSE
  /\ slot' = Disturbed(slot)
  /\ obs' = [obs EXCEPT !.last = NoLast]
  /\ UNCHANGED <<now, store, queue, cb, stats, started, rlVars, keyVars, auxVars>>

\* another writer of the shared store leaves text under the key that this
\* process's call site cannot deserialize
ForeignWrite(key) ==
  /\ obs.key = key /\ store[key].enc # "corrupt"
  /\ store' = [store EXCEPT ![key] = [enc |-> "corrupt", v |-> "", exp |-> now + TickMs]]
  /\ slot' = Disturbed(slot)
  /\ obs' = [obs EXCEPT !.last = NoLast]
  /\ UNCHANGED <<queue, cb, stats, started, sharedVars, rlVars, keyVars, auxVars>>

(***************************************************************************)
(*                     SLIDING-WINDOW RATE LIMITER                         *)
(* One limiter configuration and one (endpoint, principal) identifier,     *)
(* checked by several API processes against the same counter key.          *)
(***************************************************************************)
windowMs == 2000       \* RateLimitConfig.windowMs of the limiter under study
maxRequests == 2       \* RateLimitConfig.maxRequests of the limiter under study
Instances == {1, 2}    \* API processes sharing the counter store
MaxChecks == maxRequests + 2   \* rate-limit checks made in one run
RlTickMs == 1000       \* granularity of the clock
RlMaxTicks == Ceil(windowMs, RlTickMs)   \* the clock runs until one full window has passed
MaxFaults == 1         \* store faults (rejections, empty replies, lost clients) in one run

\* middleware(): `${endpoint}:${principal}` of the requests under study
identifier == "/api/sensors" \o ":" \o "10.0.0.7"

\* -------- sorted-set commands of the store ----------------------------------
\* ZREMRANGEBYSCORE key min max (both ends inclusive)
zRemRangeByScore(z, min, max) == {e \in z : ~(min <= e.score /\ e.score <= max)}
\* ZADD key score value (an existing value is re-scored, not duplicated)
zAdd(z, score, value) == {e \in z : e.value # value} \cup {[score |-> score, value |-> value]}
\* ZCARD key
zCard(z) == Cardinality(z)

\* A plausible slip: a request over the limit is counted but not recorded
multiExec_admittedOnly(z, txn) ==
  LET z1 == zRemRangeByScore(z, 0, txn.now - windowMs)
      over == Cardinality(z1) >= maxRequests
      z2 == IF over THEN z1 ELSE zAdd(z1, txn.now, txn.member)
  IN [zset |-> z2,
      results |-> <<Cardinality(z) - Cardinality(z1), Cardinality(z2) - Cardinality(z1),
                    Cardinality(z1) + 1, 1>>]

\* redisRateLimit, lines 384-390: the MULTI/EXEC as the store executes it, in
\* one piece.  `results` is the reply array (index 3 here is results[2] there).
multiExec(z, txn) ==
  LET z1 == zRemRangeByScore(z, 0, txn.now - windowMs)
      z2 == zAdd(z1, txn.now, txn.member)
  IN [zset |-> z2,
      results |-> <<Cardinality(z) - Cardinality(z1), Cardinality(z2) - Cardinality(z1),
                    zCard(z2), 1>>]

\* A plausible slip: the limit is tested with >= instead of >
checkResult_atLimit(results) ==
  LET count == results[3]
      exceeded == count >= maxRequests
      resetSeconds == Ceil(windowMs, 1000)
  IN [exceeded |-> exceeded, count |-> count, remaining |-> Max(0, maxRequests - count),
      resetSeconds |-> resetSeconds, retryAfter |-> IF exceeded THEN resetSeconds ELSE 0]

\* redisRateLimit, lines 394-400: the CheckResult computed from the reply
checkResult(results) ==
  checkResultFor([windowMs |-> windowMs, maxRequests |-> maxRequests], Some(results[3]))

NoCheckResult ==
  [exceeded |-> FALSE, count |-> 0, remaining |-> 0, resetSeconds |-> 0, retryAfter |-> 0]

\* middleware(), lines 333-356: 429 when the limit is exceeded, else next()
respond(r) == IF r.exceeded THEN "429" ELSE "next"

\* A plausible slip: the catch block rejects the request
middlewareCatch_failClosed == "429"

\* middleware(), catch block (lines 357-362): log and next()
middlewareCatch == "next"

\* one evaluated check, as the log keeps it
Check(txn, at, cause, added, r, response) ==
  [now |-> txn.now, at |-> at, cause |-> cause, added |-> added,
   result |-> r, response |-> response]

\* faults the store and the clients have shown so far
Faults ==
  Cardinality({j \in DOMAIN checks : checks[j].cause \in {"exec-rejected", "no-results"}})
  + Cardinality({i \in Instances : ~clientOf[i]})

InFlight(p) == LET n == [i \in Instances |-> Len(p[i])] IN n[1] + n[2]

InitLimiter ==
  /\ zset = {} /\ zexp = 0
  /\ pending = [i \in Instances |-> <<>>]
  /\ clientOf = [i \in Instances |-> TRUE]
  /\ checks = <<>>
  /\ nonce = 0

\* middleware() of process i up to `await pipeline.exec()` (lines 324-390)
RlIssue(i) ==
  /\ Len(checks) + InFlight(pending) < MaxChecks
  /\ IF ~clientOf[i]
       THEN \* getRedisClient() throws: catch block
            /\ checks' = Append(checks, Check([now |-> now], now, "no-client", 0,
                                              NoCheckResult, middlewareCatch))
            /\ UNCHANGED <<pending, nonce>>
       ELSE /\ pending' = [pending EXCEPT ![i] = Append(@,
                             [key |-> rateLimitKey(identifier, ToString(windowMs) \o "ms"),
                              now |-> now, member |-> nonce])]
            /\ nonce' = nonce + 1
            /\ UNCHANGED checks
  /\ UNCHANGED <<zset, zexp, clientOf, sharedVars, cacheVars, keyVars>>

\* the oldest transaction of process i is settled: middleware() from line 390
\* to its response
RlExec(i) ==
  /\ pending[i] # <<>>
  /\ pending' = [pending EXCEPT ![i] = Tail(@)]
  /\ LET txn == Head(pending[i])
         ex  == multiExec(zset, txn)
         ttl == Ceil(windowMs, 1000) * 1000
         r   == checkResult(ex.results)
     IN \/ \* executed and answered
           /\ zset' = ex.zset /\ zexp' = now + ttl
           /\ checks' = Append(checks, Check(txn, now, "ok", ex.results[2], r, respond(r)))
        \/ \* rejected before the store executed it (connection lost, queue flushed)
           /\ Faults < MaxFaults
           /\ UNCHANGED <<zset, zexp>>
           /\ checks' = Append(checks, Check(txn, now, "exec-rejected", 0,
                                              NoCheckResult, middlewareCatch))
        \/ \* executed, but the reply never arrived: exec() rejects
           /\ Faults < MaxFaults
           /\ zset' = ex.zset /\ zexp' = now + ttl
           /\ checks' = Append(checks, Check(txn, now, "exec-rejected", ex.results[2],
                                              NoCheckResult, middlewareCatch))
        \/ \* exec() resolves without results: `throw new Error(...)`
           /\ Faults < MaxFaults
           /\ UNCHANGED <<zset, zexp>>
           /\ checks' = Append(checks, Check(txn, now, "no-results", 0,
                                              NoCheckResult, middlewareCatch))
  /\ UNCHANGED <<nonce, clientOf, sharedVars, cacheVars, keyVars>>

\* time passes; the store drops the counter key when its TTL has run out
RlTick ==
  /\ now + RlTickMs <= RlMaxTicks * RlTickMs
  /\ now' = now + RlTickMs
  /\ IF zexp # 0 /\ zexp <= now' THEN zset' = {} /\ zexp' = 0
                                 ELSE UNCHANGED <<zset, zexp>>
  /\ UNCHANGED <<redisClient, pending, checks, nonce, clientOf, cacheVars, keyVars>>

\* closeRedis() in process i, or a process started without initializeRedis()
RlCloseRedis(i) ==
  /\ clientOf[i] /\ Faults < MaxFaults
  /\ clientOf' = [clientOf EXCEPT ![i] = FALSE]
  /\ UNCHANGED <<zset, zexp, pending, checks, nonce, sharedVars, cacheVars, keyVars>>

NextLimiter ==
  \/ \E i \in Instances : RlIssue(i)
  \/ \E i \in Instances : RlExec(i)
  \/ RlTick
  \/ \E i \in Instances : RlCloseRedis(i)

(***************************************************************************)
(*                        PATTERN INVALIDATION                             *)
(* invalidatePattern(pattern) asks the store for the keys matching a glob  *)
(* pattern (KEYS) and deletes them (DEL): two commands, with other writers *)
(* of the shared store and the passing of time in between.                 *)
(***************************************************************************)
\* the store matches a pattern against a key character by character
Txt ==
  [livestock |-> <<"l", "i", "v", "e", "s", "t", "o", "c", "k">>,
   sensor |-> <<"s", "e", "n", "s", "o", "r">>,
   health |-> <<"h", "e", "a", "l", "t", "h">>,
   animals |-> <<"a", "n", "i", "m", "a", "l", "s">>,
   latest |-> <<"l", "a", "t", "e", "s", "t">>,
   C001 |-> <<"C", "0", "0", "1">>,
   C002 |-> <<"C", "0", "0", "2">>,
   colon |-> <<":">>,
   agg |-> <<"a", "g", "g">>,
   hour1 |-> <<"1", "h", "o", "u", "r">>,
   h24 |-> <<"2", "4", "h">>,
   batch |-> <<"b", "a", "t", "c", "h">>,
   comma |-> <<",">>,
   l50 |-> <<"l", "5", "0">>,
   farm |-> <<"f", "a", "r", "m">>,
   F1 |-> <<"F", "1">>,
   overview |-> <<"o", "v", "e", "r", "v", "i", "e", "w">>,
   trends |-> <<"t", "r", "e", "n", "d", "s">>]

\* CacheKeyGenerator.farmOverview(farmId?)
farmOverview(farmId) ==
  IF TruthyStr(farmId) THEN k(<<Some("farm"), farmId, Some("overview")>>)
  ELSE k(<<Some("overview")>>)

MaxInFlight == 1   \* writes of other processes in flight at once

\* the keys the store may hold in these runs, with their text
TextOf ==
  (sensorReading("C001", TRUE) :> Txt.livestock \o Txt.colon \o Txt.sensor \o Txt.colon \o Txt.C001 \o Txt.colon \o Txt.latest)
  @@ (sensorReading("C002", TRUE) :> Txt.livestock \o Txt.colon \o Txt.sensor \o Txt.colon \o Txt.C002 \o Txt.colon \o Txt.latest)
  @@ (healthPrediction("C001", TRUE) :> Txt.livestock \o Txt.colon \o Txt.health \o Txt.colon \o Txt.C001 \o Txt.colon \o Txt.latest)
  @@ (aggregatedSensorData("C001", "1hour", Some(24)) :>
        Txt.livestock \o Txt.colon \o Txt.agg \o Txt.colon \o Txt.C001 \o Txt.colon \o Txt.hour1 \o Txt.colon \o Txt.h24)
  @@ (batchSensorReadings(<<"C002", "C001">>, 24, 50).key :>
        Txt.livestock \o Txt.colon \o Txt.sensor \o Txt.colon \o Txt.batch \o Txt.colon \o Txt.C001 \o Txt.comma
        \o Txt.C002 \o Txt.colon \o Txt.h24 \o Txt.colon \o Txt.l50)
  @@ (farmOverview(Some("F1")) :>
        Txt.livestock \o Txt.colon \o Txt.farm \o Txt.colon \o Txt.F1 \o Txt.colon \o Txt.overview)
  @@ (farmOverview(undefined) :> Txt.livestock \o Txt.colon \o Txt.overview)
InvKeys == {sensorReading("C001", TRUE), sensorReading("C002", TRUE), healthPrediction("C001", TRUE)}
\* the keys the store may hold when an animal's cache is invalidated
AnimalKeys == DOMAIN TextOf

\* the patterns invalidateAnimalCache("C001") passes, and two more a caller may pass
Patterns ==
  { Txt.livestock \o Txt.colon \o Txt.sensor \o Txt.colon \o Txt.C001 \o <<"*">>,
    Txt.livestock \o Txt.colon \o Txt.health \o Txt.colon \o Txt.C001 \o <<"*">>,
    Txt.livestock \o Txt.colon \o Txt.animals \o Txt.colon \o <<"*">>,
    Txt.livestock \o Txt.colon \o Txt.sensor \o Txt.colon \o <<"*">>,
    Txt.livestock \o Txt.colon \o <<"*">> \o Txt.colon \o Txt.C001 \o Txt.colon \o Txt.latest,
    Txt.livestock \o Txt.colon \o Txt.sensor \o Txt.colon \o <<"C", "0", "0", "?">> \o Txt.colon \o Txt.latest }

\* glob matching of the store's KEYS command: * is any run of characters,
\* ? is any one character, every other character stands for itself
RECURSIVE GlobMatch(_, _)
GlobMatch(p, s) ==
  IF p = <<>> THEN s = <<>>
  ELSE IF Head(p) = "*"
    THEN GlobMatch(Tail(p), s) \/ (s # <<>> /\ GlobMatch(p, Tail(s)))
  ELSE IF s = <<>> THEN FALSE
  ELSE (Head(p) = "?" \/ Head(p) = Head(s)) /\ GlobMatch(Tail(p), Tail(s))

\* KEYS pattern, answered from the store's contents at the time it executes
keysReply(st, pattern) ==
  {key \in DOMAIN st : st[key] # NoEntry /\ GlobMatch(pattern, TextOf[key])}

\* DEL keys
del(st, keys) == [key \in DOMAIN st |-> IF key \in keys THEN NoEntry ELSE st[key]]

\* the call, before it starts: alive is the set of entries that were in the
\* store under a matching key when the call was made and are still there
\* unreplaced; collateral is the set of entries under non-matching keys that
\* the call's commands removed
IdleInval ==
  [pc |-> "idle", pattern |-> <<>>, found |-> {}, dels |-> 0, failed |-> FALSE,
   raised |-> FALSE, atCall |-> {}, alive |-> {}, collateral |-> {}, inflight |-> {}]

\* A plausible slip: the delete is issued only for more than one key
afterKeys_moreThanOne(iv, keys) ==
  IF Cardinality(keys) > 1
  THEN [iv EXCEPT !.pc = "del", !.found = keys, !.dels = @ + 1]
  ELSE [iv EXCEPT !.pc = "done", !.found = keys]

\* if (keys.length > 0) await redis.del(keys)
afterKeys(iv, keys) ==
  IF Cardinality(keys) > 0
  THEN [iv EXCEPT !.pc = "del", !.found = keys, !.dels = @ + 1]
  ELSE [iv EXCEPT !.pc = "done", !.found = keys]

\* catch (error) { console.error(...) }: the call resolves
invalidateCatch(iv) == [iv EXCEPT !.pc = "done", !.failed = TRUE]

\* invalidatePattern(pattern) up to its first await
InvalidateStart(pattern) ==
  /\ inval.pc = "idle"
  /\ LET matching == keysReply(store, pattern)
         iv == [inval EXCEPT !.pattern = pattern, !.atCall = matching, !.alive = matching]
     IN IF redisClient
        THEN /\ inval' = [iv EXCEPT !.pc = "keys"]
             /\ queue' = Append(queue, [op |-> "keys", pattern |-> pattern])
        ELSE \* getRedisClient() throws
             /\ inval' = invalidateCatch(iv)
             /\ queue' = queue
  /\ UNCHANGED <<store, cb, stats, slot, started, obs, sharedVars, rlVars, keyVars, warm>>

\* the store answers KEYS, or the command is rejected
InvalidateKeysReply ==
  /\ inval.pc = "keys" /\ queue # <<>> /\ Head(queue).op = "keys"
  /\ \/ inval' = afterKeys(inval, keysReply(store, Head(queue).pattern))
     \/ inval' = invalidateCatch(inval)
  /\ queue' = Tail(queue) \o
       (IF inval'.pc = "del" THEN <<[op |-> "del", keys |-> inval'.found]>> ELSE <<>>)
  /\ UNCHANGED <<store, cb, stats, slot, started, obs, sharedVars, rlVars, keyVars, warm>>

\* the store executes DEL and answers, or answers with an error, or the
\* command is rejected before it executes
InvalidateDelReply ==
  /\ inval.pc = "del" /\ queue # <<>> /\ Head(queue).op = "del"
  /\ queue' = Tail(queue)
  /\ LET keys == Head(queue).keys
         gone == [inval EXCEPT
                    !.alive = @ \ keys,
                    !.collateral = @ \cup {key \in keys : store[key] # NoEntry
                                             /\ ~GlobMatch(inval.pattern, TextOf[key])}]
     IN \/ /\ store' = del(store, keys)
           /\ inval' = [gone EXCEPT !.pc = "done"]
        \/ /\ store' = del(store, keys)
           /\ inval' = invalidateCatch(gone)
        \/ /\ store' = store
           /\ inval' = invalidateCatch(inval)
  /\ UNCHANGED <<cb, stats, slot, started, obs, sharedVars, rlVars, keyVars, warm>>

\* the value a fetcher returns: "A" until the invalidation is called (the
\* data as it was), "B" from then on
Fetched == IF inval.pc = "idle" THEN "A" ELSE "B"

\* some process of the application caches a value under the key
Populate(key) ==
  /\ store[key] = NoEntry \/ store[key].exp < now + SENSOR_LATEST * 1000 \/ store[key].v # Fetched
  /\ store' = [store EXCEPT ![key] =
                 [enc |-> "json", v |-> Fetched, exp |-> now + SENSOR_LATEST * 1000]]
  /\ inval' = [inval EXCEPT !.alive = @ \ {key}]
  /\ UNCHANGED <<queue, cb, stats, slot, started, obs, sharedVars, rlVars, keyVars, warm>>

\* cacheGetOrSet in another process of the application, miss path, before
\* the invalidation is called: the fetcher has returned and the SETEX is
\* sent fire-and-forget on that process's own connection (lines 64-74)
OtherSetEx(key) ==
  /\ inval.pc = "idle" /\ Cardinality(inval.inflight) < MaxInFlight
  /\ inval' = [inval EXCEPT !.inflight = @ \cup {[key |-> key, v |-> Fetched]}]
  /\ UNCHANGED <<store, queue, cb, stats, slot, started, obs, sharedVars, rlVars, keyVars, warm>>

\* the store executes that SETEX
OtherSetExReply(w) ==
  /\ w \in inval.inflight
  /\ store' = [store EXCEPT ![w.key] =
                 [enc |-> "json", v |-> w.v, exp |-> now + SENSOR_LATEST * 1000]]
  /\ inval' = [inval EXCEPT !.inflight = @ \ {w}, !.alive = @ \ {w.key}]
  /\ UNCHANGED <<queue, cb, stats, slot, started, obs, sharedVars, rlVars, keyVars, warm>>

\* time passes; the store drops the entries whose TTL has run out
InvTick ==
  /\ now + TickMs <= MaxTicks * TickMs
  /\ now' = now + TickMs
  /\ store' = [key \in DOMAIN store |->
                 IF store[key] # NoEntry /\ store[key].exp <= now' THEN NoEntry
                 ELSE store[key]]
  /\ inval' = [inval EXCEPT !.alive = {key \in @ : store'[key] # NoEntry}]
  /\ UNCHANGED <<redisClient, queue, cb, stats, slot, started, obs, rlVars, keyVars, warm>>

\* closeRedis(): the module's client becomes null
InvCloseRedis ==
  /\ redisClient
  /\ redisClient' = FALSE
  /\ UNCHANGED <<now, cacheVars, rlVars, keyVars>>

NextInvalidate ==
  \/ \E pattern \in Patterns : InvalidateStart(pattern)
  \/ InvalidateKeysReply
  \/ InvalidateDelReply
  \/ \E key \in InvKeys : Populate(key)
  \/ \E key \in InvKeys : OtherSetEx(key)
  \/ \E key \in InvKeys : OtherSetExReply([key |-> key, v |-> "A"])
  \/ InvTick
  \/ InvCloseRedis

(***************************************************************************)
(*                            CACHE WARMING                                *)
(* getAnimals(options) answers from cacheGetOrSet and, for page 1 of a     *)
(* multi-page result, hands the computation of page 2 to setImmediate.     *)
(* cacheGetOrSet is taken here by its outcomes: it resolves with the       *)
(* result, or rejects with the fetcher's error.                            *)
(***************************************************************************)
\* CacheKeyGenerator.animals(page, limit, farmId?, healthStatus?)
animals(page, limit, farmId, healthStatus) ==
  k(<<Some("animals"), Some("p" \o ToString(page)), Some("l" \o ToString(limit)),
      IF TruthyStr(farmId) THEN Some("f" \o farmId[1]) ELSE undefined,
      IF TruthyStr(healthStatus) THEN Some("h" \o healthStatus[1]) ELSE undefined>>)

\* the options a request may carry
AnimalOptions ==
  [page : {undefined, Some(1), Some(2)}, limit : {undefined, Some(50)},
   farmId : {undefined, Some("F1")}, healthStatus : {undefined, Some("sick")}]
\* result.pagination.pages of a result
PageCounts == {1, 2, 3}

\* const { page = 1, limit = 20, farmId, healthStatus } = options; the key
animalsKey(options) ==
  animals(Default(options.page, 1), Default(options.limit, 20), options.farmId,
          options.healthStatus)

\* if (page === 1 && result.pagination.pages > 1)
warms(options, result) == Default(options.page, 1) = 1 /\ result.v.pages > 1

NoOptions == [page |-> undefined, limit |-> undefined, farmId |-> undefined,
              healthStatus |-> undefined]
IdleWarm ==
  [pc |-> "idle", options |-> NoOptions, key |-> "", response |-> NoResult,
   task |-> "none", taskOptions |-> NoOptions, taskKey |-> "", taskResult |-> NoResult,
   tasks |-> 0, raised |-> FALSE]

\* A plausible slip: the warming task lets its error escape
warmCatch_rethrow(w) == [w EXCEPT !.task = "settled", !.taskResult = Threw, !.raised = TRUE]

\* warmCache, catch (error) { }: the error is dropped
warmCatch(w) == [w EXCEPT !.task = "settled", !.taskResult = Threw]

\* getAnimals(options) up to `await this.cacheGetOrSet(...)`
GetAnimalsCall(options) ==
  /\ warm.pc = "idle"
  /\ warm' = [warm EXCEPT !.pc = "await", !.options = options, !.key = animalsKey(options)]
  /\ UNCHANGED <<now, redisClient, store, queue, cb, stats, slot, started, obs, inval,
                 rlVars, keyVars>>

\* cacheGetOrSet settles; getAnimals runs to its return: warmCache() only
\* registers the setImmediate callback
GetAnimalsReturn ==
  /\ warm.pc = "await"
  /\ \/ \E n \in PageCounts :
          LET result == Returned([pages |-> n, key |-> warm.key])
          IN warm' = [warm EXCEPT
                        !.pc = "responded", !.response = result,
                        !.task = IF warms(warm.options, result) THEN "scheduled" ELSE @,
                        !.tasks = IF warms(warm.options, result) THEN @ + 1 ELSE @]
     \/ warm' = [warm EXCEPT !.pc = "responded", !.response = Threw]
  /\ UNCHANGED <<now, redisClient, store, queue, cb, stats, slot, started, obs, inval,
                 rlVars, keyVars>>

\* the setImmediate callback runs: fetcher() is getAnimals({ ...options, page: 2 }),
\* up to its `await this.cacheGetOrSet(...)`
WarmRun ==
  /\ warm.task = "scheduled"
  /\ LET options == [warm.options EXCEPT !.page = Some(2)]
     IN warm' = [warm EXCEPT !.task = "await", !.taskOptions = options,
                             !.taskKey = animalsKey(options)]
  /\ UNCHANGED <<now, redisClient, store, queue, cb, stats, slot, started, obs, inval,
                 rlVars, keyVars>>

\* cacheGetOrSet of the warming call settles: getAnimals runs to its return
\* and the callback's `await fetcher()` resolves, or rejects into the catch
WarmSettle ==
  /\ warm.task = "await"
  /\ \/ \E n \in PageCounts :
          LET result == Returned([pages |-> n, key |-> warm.taskKey])
          IN warm' = [warm EXCEPT
                        !.task = IF warms(warm.taskOptions, result) THEN "scheduled"
                                 ELSE "settled",
                        !.tasks = IF warms(warm.taskOptions, result) THEN @ + 1 ELSE @,
                        !.taskResult = result]
     \/ warm' = warmCatch(warm)
  /\ UNCHANGED <<now, redisClient, store, queue, cb, stats, slot, started, obs, inval,
                 rlVars, keyVars>>

NextWarm ==
  \/ \E options \in AnimalOptions : GetAnimalsCall(options)
  \/ GetAnimalsReturn
  \/ WarmRun
  \/ WarmSettle

\* invalidateAnimalCache(animalId) against a healthy store that nobody else
\* writes: each of the six patterns has its keys listed and deleted
invalidateAnimalCache(animalId, st) ==
  LET id == Txt[animalId]
      patterns ==
        << Txt.livestock \o Txt.colon \o Txt.sensor \o Txt.colon \o id \o <<"*">>,
           Txt.livestock \o Txt.colon \o Txt.health \o Txt.colon \o id \o <<"*">>,
           Txt.livestock \o Txt.colon \o SubSeq(Txt.animals, 1, 6) \o Txt.colon \o id,
           Txt.livestock \o Txt.colon \o Txt.animals \o Txt.colon \o <<"*">>,
           Txt.livestock \o Txt.colon \o Txt.overview \o <<"*">>,
           Txt.livestock \o Txt.colon \o Txt.trends \o Txt.colon \o <<"*">> >>
      after[i \in 0..Len(patterns)] ==
        IF i = 0 THEN st ELSE del(after[i - 1], keysReply(after[i - 1], patterns[i]))
  IN after[Len(patterns)]

\* the cache of an animal is invalidated; held is what the store holds then
InvalidateAnimal ==
  /\ keyIn.kind = "invalidateAnimal" /\ keyOut.held = undefined
  /\ LET st == [key \in AnimalKeys |->
                 IF key \in keyIn.held THEN [enc |-> "json", v |-> "A", exp |-> 600000]
                 ELSE NoEntry]
         after == invalidateAnimalCache(keyIn.animalId, st)
     IN keyOut' = [keyOut EXCEPT !.held = Some({key \in AnimalKeys : after[key] # NoEntry})]
  /\ UNCHANGED <<keyIn, sharedVars, cacheVars, rlVars>>

InitKeys ==
  /\ \/ \E qa, qb \in Queries :
          keyIn = [kind |-> "query", qa |-> qa, qb |-> qb, ids |-> <<>>, perm |-> <<>>,
                   hours |-> 0, limitPerAnimal |-> 0]
     \/ \E ids \in IdLists : \E perm \in Shuffles(ids) : \E h \in Hours : \E l \in Limits :
          keyIn = [kind |-> "batch", qa |-> NoQuery, qb |-> NoQuery, ids |-> ids,
                   perm |-> perm, hours |-> h, limitPerAnimal |-> l]
     \/ \E ua, ub \in Urls : \E pa, pb \in Principals :
          keyIn = [kind |-> "requests", ua |-> ua, ub |-> ub, pa |-> pa, pb |-> pb]
     \/ \E config \in DecisionConfigs : \E reply \in Replies(config) :
          keyIn = [kind |-> "decision", config |-> config, reply |-> reply]
     \/ \E rq \in TimeseriesRequests : keyIn = [kind |-> "timeseries", rq |-> rq]
     \/ \E animalId \in {"C001", "C002"} : \E held \in SUBSET AnimalKeys :
          keyIn = [kind |-> "invalidateAnimal", animalId |-> animalId, held |-> held]
  /\ keyOut = NoKeys

NextKeys ==
  \/ KeyOfFirst \/ KeyOfSecond \/ BatchKeyOfList \/ BatchKeyOfShuffle
  \/ LimitFirst \/ LimitSecond \/ Decide \/ Timeseries \/ InvalidateAnimal

InitLimiterIdle ==
  /\ zset = {} /\ zexp = 0 /\ pending = <<>> /\ checks = <<>> /\ nonce = 0
  /\ clientOf = <<>>
InitKeysIdle ==
  /\ keyIn = [kind |-> "none"]
  /\ keyOut = NoKeys

Init ==
  /\ now = 0 /\ redisClient = TRUE
  /\ InitCache /\ InitLimiterIdle /\ InitKeysIdle

Next ==
  \/ \E s \in Solo, site \in CallSites : CallStart(s, site)
  \/ \E s \in Solo : ReplyGet(s)
  \/ \E s \in Solo : FetchReturn(s)
  \/ \E s \in Solo : BypassReturn(s)
  \/ \E s \in Solo : FallbackReturn(s)
  \/ ReplySetEx
  \/ Tick
  \/ CloseRedis
  \/ \E key \in Keys : ForeignWrite(key)

Spec == Init /\ [][Next]_vars

\* Two request tasks inside cacheGetOrSet at once, on one key, with the
\* store's answers and the loss of the client in any order
NextConcurrent ==
  \/ \E s \in Slots, site \in CallSites : CallStart(s, site)
  \/ \E s \in Slots : ReplyGet(s)
  \/ \E s \in Slots : FetchReturn(s)
  \/ \E s \in Slots : BypassReturn(s)
  \/ \E s \in Slots : FallbackReturn(s)
  \/ ReplySetEx
  \/ CloseRedis
SpecConcurrent == Init /\ [][NextConcurrent]_vars

\* CacheService.resetStats(): the counters start again; the breaker is not
\* touched
ResetStats ==
  /\ stats # [hits |-> 0, misses |-> 0, errors |-> 0, totalRequests |-> 0]
  /\ stats' = [hits |-> 0, misses |-> 0, errors |-> 0, totalRequests |-> 0]
  /\ UNCHANGED <<store, queue, cb, slot, started, obs, sharedVars, rlVars, keyVars, auxVars>>

\* the engine with resets of the counters while the breaker is open
NextWithReset == Next \/ (cb.isOpen /\ ResetStats)
SpecWithReset == Init /\ [][NextWithReset]_vars

\* calls on a healthy client, one at a time, with resets of the counters at
\* any moment
NextStats ==
  \/ \E s \in Solo, site \in CallSites : CallStart(s, site)
  \/ \E s \in Solo : ReplyGet(s)
  \/ \E s \in Solo : FetchReturn(s)
  \/ \E s \in Solo : BypassReturn(s)
  \/ \E s \in Solo : FallbackReturn(s)
  \/ ReplySetEx
  \/ ResetStats
SpecStats == Init /\ [][NextStats]_vars

\* The engine with the scheduling the code gives it: a fetcher that was called
\* settles (the database answers or fails); nothing in the code makes the
\* store answer a command, and no timer is armed beside a command.
FetcherSettles == \E s \in Solo : FetchReturn(s) \/ BypassReturn(s) \/ FallbackReturn(s)
SpecStoreSilent == Init /\ [][Next]_vars /\ WF_vars(FetcherSettles)

InitOfKeys ==
  /\ now = 0 /\ redisClient = TRUE
  /\ InitCache /\ InitLimiterIdle /\ InitKeys

SpecKeys == InitOfKeys /\ [][NextKeys]_vars

InitOfLimiter ==
  /\ now = 0 /\ redisClient = TRUE
  /\ InitCache /\ InitLimiter /\ InitKeysIdle

SpecLimiter == InitOfLimiter /\ [][NextLimiter]_vars

InitOfInvalidate ==
  /\ now = 0 /\ redisClient = TRUE
  /\ store = [key \in InvKeys |-> NoEntry]
  /\ queue = <<>>
  /\ cb = [failures |-> 0, lastFailure |-> 0, isOpen |-> FALSE]
  /\ stats = [hits |-> 0, misses |-> 0, errors |-> 0, totalRequests |-> 0]
  /\ slot = [s \in Slots |-> IdleSlot]
  /\ started = 0
  /\ obs = [last |-> [key |-> "", v |-> "", valid |-> FALSE], streak |-> 0, key |-> "",
            wasReset |-> FALSE]
  /\ inval = IdleInval
  /\ warm = [pc |-> "idle"]
  /\ InitLimiterIdle /\ InitKeysIdle

SpecInvalidate == InitOfInvalidate /\ [][NextInvalidate]_vars

InitOfWarm ==
  /\ now = 0 /\ redisClient = TRUE
  /\ store = [key \in Keys |-> NoEntry]
  /\ queue = <<>>
  /\ cb = [failures |-> 0, lastFailure |-> 0, isOpen |-> FALSE]
  /\ stats = [hits |-> 0, misses |-> 0, errors |-> 0, totalRequests |-> 0]
  /\ slot = [s \in Slots |-> IdleSlot]
  /\ started = 0
  /\ obs = [last |-> [key |-> "", v |-> "", valid |-> FALSE], streak |-> 0, key |-> "",
            wasReset |-> FALSE]
  /\ inval = [pc |-> "idle"]
  /\ warm = IdleWarm
  /\ InitLimiterIdle /\ InitKeysIdle

SpecWarm == InitOfWarm /\ [][NextWarm]_vars

(***************************************************************************)
(*                    PROPERTIES OF THE CACHE ENGINE                       *)
(***************************************************************************)

\* C1: a call that misses and is immediately followed, on a healthy store and
\* with no expiry or invalidation in between, by a second call on the same key
\* with a fresh fetcher: the second call returns the first fetcher's result,
\* never invokes its own fetcher, and raises the hit counter by exactly 1.
C1_MissThenHit ==
  \A s \in Slots :
    (slot[s].pc = "done" /\ slot[s].follows # undefined) =>
      /\ slot[s].result = Returned(slot[s].follows[1])
      /\ slot[s].fetches = 0
      /\ stats.hits = slot[s].hits0 + 1

\* a second call on a compressed call site has completed right after a miss
C1_Witness ==
  \E s \in Slots :
    /\ slot[s].pc = "done" /\ slot[s].follows # undefined
    /\ slot[s].site.compress /\ slot[s].result.ok /\ stats.misses >= 1

\* C2: whatever fails in the cache layer (no client, read rejected, write
\* rejected, undeserializable payload, breaker open), a finished call returns
\* the value of its fetcher when the fetcher succeeded, and ends in an error
\* only when the fetcher itself raised.
C2_OnlyFetcherErrorsSurface ==
  \A s \in Slots :
    slot[s].pc = "done" =>
      /\ (~slot[s].result.ok => slot[s].lastFetch = Threw)
      /\ (slot[s].lastFetch.ok => slot[s].result = slot[s].lastFetch)

\* a call whose store read failed (rejected, or an undeserializable payload)
\* has returned a fetched value
C2_Witness ==
  \E s \in Slots :
    /\ slot[s].pc = "done" /\ slot[s].result.ok
    /\ slot[s].storeOps = 1 /\ slot[s].fetches = 1 /\ stats.errors >= 1

\* C6: after five consecutive calls that each missed and each had their
\* setEx rejected, starting from a closed breaker with failure count 0, the
\* breaker is open.
C6_FiveWriteFailuresOpen == obs.streak >= maxFailures => cb.isOpen

\* C7: the breaker is open as soon as maxFailures failures have been recorded
\* in a row and does not open with fewer; a check made when more than
\* resetTimeout has passed since the last failure reports closed and zeroes
\* the failure count before the store is touched.
C7_BreakerThreshold ==
  /\ [](cb.failures >= maxFailures => cb.isOpen)
  /\ [][(~cb.isOpen /\ cb'.isOpen) =>
          (cb.failures = maxFailures - 1 /\ cb'.failures = maxFailures)]_vars
  /\ [][(started' = started + 1 /\ cb.isOpen /\ now - cb.lastFailure > resetTimeout) =>
          \A s \in Slots :
            slot'[s] # slot[s] =>
              /\ slot'[s].pc \in {"get", "fallback"}
              /\ ~cb'.isOpen
              /\ cb'.failures = (IF slot'[s].pc = "get" THEN 0 ELSE 1)]_vars

\* an open breaker has been closed by a check and the store is being read
C7_Witness ==
  /\ obs.wasReset /\ ~cb.isOpen /\ cb.failures = 0
  /\ \E s \in Slots : slot[s].pc = "get"

\* C8: a call that finds the breaker open touches neither the store nor any
\* engine state except totalRequests, whether its fetcher succeeds or fails.
C8_BypassChangesNothing ==
  [][\A s \in Slots :
       /\ (slot[s].pc # "bypass" /\ slot'[s].pc = "bypass") =>
            (/\ stats' = [stats EXCEPT !.totalRequests = @ + 1]
             /\ cb' = cb /\ queue' = queue /\ store' = store)
       /\ (slot[s].pc = "bypass" /\ slot'[s].pc # "bypass") =>
            (/\ stats' = stats /\ cb' = cb /\ queue' = queue /\ store' = store
             /\ slot'[s].pc = "done")]_vars

(***************************************************************************)
(*                    PROPERTIES OF THE RATE LIMITER                       *)
(***************************************************************************)
\* the checks up to the j-th were all answered by the store, each at the
\* clock reading it was stamped with: requests made one after the other
Sequential(j) ==
  \A i \in 1..j : checks[i].cause = "ok" /\ checks[i].at = checks[i].now

\* the checks up to the j-th stamped inside the window that ends at the j-th
InWindow(j) == {i \in 1..j : checks[i].now > checks[j].now - windowMs}

\* C3: for requests made one after the other on one key, starting from an
\* empty window: the k-th request inside the window (k <= maxRequests) is
\* admitted with remaining = maxRequests - k, any further request inside the
\* window is denied with retryAfter = ceil(windowMs / 1000), and a request made
\* when every earlier one is a full window old is counted as the first again.
C3_WindowBoundary ==
  \A j \in DOMAIN checks :
    Sequential(j) =>
      LET kth == Cardinality(InWindow(j))
          c   == checks[j]
      IN /\ c.result.count = kth
         /\ kth <= maxRequests =>
              (c.response = "next" /\ ~c.result.exceeded /\ c.result.remaining = maxRequests - kth)
         /\ kth > maxRequests =>
              (c.response = "429" /\ c.result.exceeded /\ c.result.remaining = 0 /\
               c.result.retryAfter = Ceil(windowMs, 1000))
         /\ (\A i \in 1..(j - 1) : checks[i].now + windowMs <= c.now) =>
              (c.result.count = 1 /\ c.response = "next")

\* maxRequests requests were admitted, the next one inside the window was
\* denied, and a request a full window later was admitted as the first again
C3_Witness ==
  /\ Len(checks) = maxRequests + 2 /\ Sequential(maxRequests + 2)
  /\ \A j \in 1..(maxRequests + 1) : Cardinality(InWindow(j)) = j
  /\ checks[maxRequests].response = "next" /\ checks[maxRequests].result.remaining = 0
  /\ checks[maxRequests + 1].response = "429"
  /\ checks[maxRequests + 2].now >= checks[maxRequests + 1].now + windowMs
  /\ checks[maxRequests + 2].response = "next"

\* C4: a check that ends in an error (no client in the process, transaction
\* rejected, transaction without results) ends with next(): never a 429, and
\* nothing of the check result reaches the response.
C4_FailOpen ==
  \A j \in DOMAIN checks :
    checks[j].cause # "ok" =>
      (checks[j].response = "next" /\ checks[j].result = NoCheckResult)

\* a transaction was rejected while the window already held maxRequests
\* entries, and the request went through
C4_Witness ==
  \E j \in DOMAIN checks :
    /\ checks[j].cause = "exec-rejected" /\ checks[j].response = "next"
    /\ Cardinality({i \in 1..(j - 1) : checks[i].cause = "ok" /\
                                        checks[i].now > checks[j].now - windowMs}) >= maxRequests

\* C5: whatever the interleaving of the checks of the processes, every
\* executed check adds exactly one entry, its count is the number of entries
\* the set then holds (its own included), and no more than maxRequests of the
\* checks stamped inside one window are admitted.
C5_AtMostMaxPerWindow ==
  \A j \in DOMAIN checks :
    checks[j].cause = "ok" =>
      /\ checks[j].added = 1
      /\ checks[j].result.count >= 1
      /\ Cardinality({i \in DOMAIN checks :
                        /\ checks[i].cause = "ok" /\ checks[i].response = "next"
                        /\ checks[j].now <= checks[i].now
                        /\ checks[i].now < checks[j].now + windowMs}) <= maxRequests

(***************************************************************************)
(*                    PROPERTIES OF KEY CONSTRUCTION                       *)
(***************************************************************************)
\* C9: two queries made through the cache service that ask different things
\* of the time-series store (another animal, time window, resolution, row
\* limit or offset) are given different cache keys.
C9_DistinctQueriesDistinctKeys ==
  (/\ keyIn.kind = "query" /\ keyOut.ka # undefined /\ keyOut.kb # undefined
   /\ DbQueryOf(keyIn.qa) # DbQueryOf(keyIn.qb))
    => keyOut.ka # keyOut.kb

\* C10: a list of animal ids and any permutation of it, with the same hours
\* and per-animal limit, get the same batch key, and both arrays are left as
\* the caller passed them.
C10_BatchKeyOrderInsensitive ==
  (keyIn.kind = "batch" /\ keyOut.ba # undefined /\ keyOut.bb # undefined) =>
    /\ keyOut.ba = keyOut.bb
    /\ keyOut.idsAfter = Some(keyIn.ids)
    /\ keyOut.permAfter = Some(keyIn.perm)

\* the keys of an unsorted list and of a different ordering of it were built
C10_Witness ==
  /\ keyIn.kind = "batch" /\ keyOut.ba # undefined /\ keyOut.bb # undefined
  /\ keyIn.ids # keyIn.perm /\ keyIn.ids # SortStrings(keyIn.ids)
  /\ Len(keyIn.ids) = MaxBatch

\* the checks made so far for the requests of the scenario
ChecksMade ==
  IF keyIn.kind # "requests" THEN {}
  ELSE (IF keyOut.la = undefined THEN {} ELSE {keyOut.la[1][i] : i \in DOMAIN keyOut.la[1]})
       \cup (IF keyOut.lb = undefined THEN {} ELSE {keyOut.lb[1][i] : i \in DOMAIN keyOut.lb[1]})

\* C11: two limiters with different limits that evaluate requests with the
\* same endpoint string and the same principal use different counter keys.
C11_CounterPerLimiter ==
  \A x, y \in ChecksMade :
    (/\ LimiterConfig[x.limiter] # LimiterConfig[y.limiter]
     /\ x.endpoint = y.endpoint /\ x.principal = y.principal)
      => x.key # y.key

\* C12: two requests of one caller that are served by the same route (same
\* router, same path template) use the same counter key at every limiter they
\* pass, the global one and the one mounted on the router.
C12_EndpointIsRouteTemplate ==
  (/\ keyIn.kind = "requests" /\ keyOut.la # undefined /\ keyOut.lb # undefined
   /\ keyIn.pa = keyIn.pb /\ routeOf(keyIn.ua) = routeOf(keyIn.ub))
    => \A i \in DOMAIN keyOut.la[1] : keyOut.la[1][i].key = keyOut.lb[1][i].key

\* C13: for requests made one after the other, the count a check stamped
\* `now` returns is the number of checks recorded so far (its own included)
\* whose stamp t satisfies now - windowMs <= t <= now, both ends included.
C13_CountOverClosedWindow ==
  \A j \in DOMAIN checks :
    Sequential(j) =>
      checks[j].result.count =
        Cardinality({i \in 1..j : /\ checks[j].now - windowMs <= checks[i].now
                                  /\ checks[i].now <= checks[j].now})

\* C14: for every configuration and every count the store returns: the
\* request is allowed iff count <= maxRequests; remaining is maxRequests - count
\* and never below 0; resetSeconds is the least whole number of seconds that
\* covers windowMs; retryAfter is resetSeconds when denied and 0 when allowed.
C14_Decision ==
  (keyIn.kind = "decision" /\ keyOut.decision # undefined /\ keyIn.reply # undefined) =>
    LET d == keyOut.decision[1]
        count == keyIn.reply[1]
        N == keyIn.config.maxRequests
        W == keyIn.config.windowMs
    IN /\ d.count = count
       /\ ~d.exceeded <=> count <= N
       /\ d.remaining = (IF N - count > 0 THEN N - count ELSE 0)
       /\ (d.resetSeconds - 1) * 1000 < W /\ W <= d.resetSeconds * 1000
       /\ d.retryAfter = (IF d.exceeded THEN d.resetSeconds ELSE 0)

\* a request was denied by a limiter whose window is no whole number of seconds
C14_Witness ==
  /\ keyIn.kind = "decision" /\ keyOut.decision # undefined /\ keyIn.reply # undefined
  /\ keyIn.config.windowMs = 1500 /\ keyIn.reply[1] > keyIn.config.maxRequests + 1
  /\ keyOut.decision[1].exceeded /\ keyOut.decision[1].retryAfter = 2

(***************************************************************************)
(*                   PROPERTIES OF PATTERN INVALIDATION                    *)
(***************************************************************************)
\* C15: when invalidatePattern(p) has completed without a store failure, no
\* entry that was in the store under a key matching p when the call was made
\* is still there, and no entry under a non-matching key was removed by it;
\* with zero matches no DEL was issued; and whether or not the store failed,
\* nothing is raised to the caller.
C15_InvalidatePattern ==
  /\ inval.raised = FALSE
  /\ inval.collateral = {}
  /\ inval.pc = "done" /\ ~inval.failed =>
        /\ inval.alive = {}
        /\ inval.found = {} => inval.dels = 0
        /\ inval.found # {} => inval.dels = 1

\* a call that found one matching entry beside a non-matching one and has
\* completed: the matching entry is gone, the other is in place
C15_Witness ==
  /\ inval.pc = "done" /\ ~inval.failed
  /\ Cardinality(inval.atCall) = 1 /\ inval.found = inval.atCall
  /\ \E key \in InvKeys : ~GlobMatch(inval.pattern, TextOf[key]) /\ store[key] # NoEntry
  /\ \A key \in inval.atCall : store[key] = NoEntry

(***************************************************************************)
(*                      PROPERTIES OF CACHE WARMING                        *)
(***************************************************************************)
\* C16: a page-1 request answered with a result of more than one page has
\* started exactly one warming task, for page 2 of the same options; the
\* response is delivered when the task is registered, before the task runs;
\* whatever the task's outcome, the delivered response stays the result of
\* the request's own key and nothing is raised.
C16_WarmingDetached ==
  /\ warm.raised = FALSE
  /\ warm.task # "none" => warm.pc = "responded"
  /\ warm.pc = "responded" =>
        /\ warm.response.ok => warm.response.v.key = warm.key
        /\ (warm.response.ok /\ warms(warm.options, warm.response)) <=> warm.tasks = 1
        /\ warm.tasks \in {0, 1}
  /\ warm.task \in {"await", "settled"} =>
        warm.taskKey = animals(2, Default(warm.options.limit, 20), warm.options.farmId,
                               warm.options.healthStatus)

\* the warming fetch has failed after a page-1 response of three pages
C16_Witness ==
  /\ warm.pc = "responded" /\ warm.response.ok /\ warm.response.v.pages = 3
  /\ warm.options.page = undefined
  /\ warm.task = "settled" /\ ~warm.taskResult.ok

(***************************************************************************)
(*                    PROPERTIES OF STORE ROUND TRIPS                      *)
(***************************************************************************)
\* C17: a cacheGetOrSet call that waits for the store's answer to its GET
\* eventually returns, even if the store never answers.
C17_NoCallWaitsForever == \A s \in Slots : (slot[s].pc = "get") ~> (slot[s].pc = "done")

(***************************************************************************)
(*              PROPERTIES OF THE BREAKER'S BOOKKEEPING                    *)
(***************************************************************************)
\* C18: a step in which the fetcher of a miss, or the fetcher called with the
\* breaker open, throws leaves the error counter and the breaker as they
\* were, and the call ends with that exception.
C18_FetcherErrorsNotCounted ==
  [][\A s \in Slots :
       (slot[s].pc \in {"fetch", "bypass"} /\ slot'[s].lastFetch = Threw) =>
          /\ stats'.errors = stats.errors
          /\ cb' = cb
          /\ slot'[s].pc = "done" /\ slot'[s].result = Threw]_vars

\* C19: with the breaker closed, the step in which a call completes from the
\* store's answer (a hit) or from the fetcher of a miss leaves the failure
\* counter at 0.
C19_SuccessResetsFailures ==
  [][\A s \in Slots :
       (~cb.isOpen /\ slot[s].pc \in {"get", "fetch"} /\ slot'[s].pc = "done") =>
          cb'.failures = 0]_vars

\* C20: a step that closes the open breaker is the start of a call whose
\* check is made when now - lastFailure > resetTimeout, and the check leaves
\* the failure counter at 0 (the call may go on to record one new failure in
\* the same turn); no other step (a successful operation, a stats reset, a
\* store answer, the passing of time) closes it.
C20_OnlyTimeoutCloses ==
  [][(cb.isOpen /\ ~cb'.isOpen) =>
        /\ now - cb.lastFailure > resetTimeout
        /\ started' = started + 1
        /\ isCircuitOpen(cb, now).cb.failures = 0
        /\ cb' \in {isCircuitOpen(cb, now).cb, recordFailure(isCircuitOpen(cb, now).cb, now)}]_vars

\* the breaker was open, stayed open through a stats reset and has been
\* closed by the check of a later call
C20_Witness ==
  /\ obs.wasReset /\ ~cb.isOpen /\ cb.failures = 0
  /\ stats.totalRequests = 1 /\ started > 1

(***************************************************************************)
(*                 FURTHER PROPERTIES OF THE CACHE ENGINE                  *)
(***************************************************************************)
\* C21: no cacheGetOrSet call invokes its fetcher more than once, whichever
\* path it takes and whether or not the fetcher throws.
C21_FetcherAtMostOnce == \A s \in Slots : slot[s].fetches <= 1

\* C22: whenever the breaker is open the failure counter is at least
\* maxFailures.
C22_OpenImpliesFailures == cb.isOpen => cb.failures >= maxFailures

\* C26: the hits and the misses never add up to more than the total number
\* of requests.
C26_HitsPlusMisses == stats.hits + stats.misses <= stats.totalRequests

(***************************************************************************)
(*                 FURTHER PROPERTIES OF THE RATE LIMITER                  *)
(***************************************************************************)
\* C23: the checks one request goes through, each of which adds one entry to
\* its counter key, use pairwise different keys: no key receives two entries
\* from one request.
C23_OneEntryPerRequest ==
  (keyIn.kind = "requests" /\ keyOut.la # undefined) =>
     \A i, j \in DOMAIN keyOut.la[1] :
        i # j => keyOut.la[1][i].key # keyOut.la[1][j].key

\* C24: for requests made one after the other on one key, every evaluated
\* request is recorded, admitted or denied; a request is admitted exactly
\* when fewer than maxRequests earlier requests, admitted or denied, lie in
\* its trailing window; and after a denial, a request made when every earlier
\* one is a full window old is admitted.
C24_DeniedRequestsCount ==
  \A j \in DOMAIN checks :
    Sequential(j) =>
      LET earlier == InWindow(j) \ {j}
          c == checks[j]
      IN /\ c.added = 1
         /\ c.response = "next" <=> Cardinality(earlier) < maxRequests
         /\ ((\E i \in 1..(j - 1) : checks[i].response = "429") /\
             (\A i \in 1..(j - 1) : checks[i].now + windowMs <= c.now)) =>
              c.response = "next"

\* a denied request has counted toward the denial of the next one, made
\* before the window of the first denial has passed
C24_Witness ==
  \E j \in DOMAIN checks :
    /\ j > 1 /\ Sequential(j)
    /\ checks[j - 1].response = "429" /\ checks[j].response = "429"
    /\ checks[j].now > checks[j - 1].now
    /\ checks[j].result.count = checks[j - 1].result.count + 1

(***************************************************************************)
(*               FURTHER PROPERTIES OF PATTERN INVALIDATION                *)
(***************************************************************************)
\* C25: once invalidatePattern(p) has returned without a store failure, no
\* key matching p holds a value that was fetched before the invalidation
\* was called, so no read of such a key returns one.
C25_NoStaleAfterInvalidate ==
  (inval.pc = "done" /\ ~inval.failed) =>
     \A key \in InvKeys :
        (GlobMatch(inval.pattern, TextOf[key]) /\ store[key] # NoEntry) => store[key].v # "A"

(***************************************************************************)
(*                 PROPERTIES OF THE AGGREGATION ROUTE                     *)
(***************************************************************************)
\* C27: a timeseries request whose resolution is none of 5min, 15min, 1hour,
\* 1day is answered with a validation failure without any rate-limit check,
\* cache key or data-source query having been made for it.
C27_RejectedBeforeAnyWork ==
  (keyIn.kind = "timeseries" /\ keyOut.ts # undefined
   /\ keyIn.rq.resolution \notin {Some("5min"), Some("15min"), Some("1hour"), Some("1day")}) =>
     /\ keyOut.ts[1].status = "400"
     /\ keyOut.ts[1].key = undefined /\ keyOut.ts[1].query = undefined
     /\ Len(keyOut.ts[1].checks) = 0

\* C28: a handled timeseries request that carries an hours-back value h
\* (capped at 17520 by the route) runs a query bounded below by the fixed
\* reference timestamp minus h hours and limited to the request's row limit;
\* without h the query has no time bound.
C28_HoursBoundTheResult ==
  (keyIn.kind = "timeseries" /\ keyOut.ts # undefined /\ keyOut.ts[1].status = "handled") =>
     LET query == keyOut.ts[1].query[1]
     IN /\ query.limit <= 10000
        /\ keyIn.rq.hours = undefined => query.filter = NoFilter
        /\ keyIn.rq.hours # undefined =>
              query.filter = SinceReference(IF keyIn.rq.hours[1] < 17520 THEN keyIn.rq.hours[1]
                                            ELSE 17520)

DerivedFrom(animalId) ==
  {sensorReading(animalId, TRUE), healthPrediction(animalId, TRUE),
   aggregatedSensorData(animalId, "1hour", Some(24)),
   batchSensorReadings(<<"C002", "C001">>, 24, 50).key,
   farmOverview(Some("F1")), farmOverview(undefined)}

\* C30: after invalidateAnimalCache(id) on a healthy store no entry derived
\* from the animal's data is left, and every entry that belongs only to
\* another animal is still there.
C30_AnimalCacheInvalidated ==
  (keyIn.kind = "invalidateAnimal" /\ keyOut.held # undefined) =>
     /\ keyOut.held[1] \cap DerivedFrom(keyIn.animalId) = {}
     /\ keyIn.held \ DerivedFrom(keyIn.animalId) \subseteq keyOut.held[1]

====
